---- MODULE Spec2Model ----
(***************************************************************************)
(* A model of xeokit-sdk's NavCubePlugin                                   *)
(* (src/plugins/NavCubePlugin/NavCubePlugin.js): its configuration setters *)
(* and getters, its layout on the Scene's tick, its mouse handlers, its    *)
(* camera subscriptions and its teardown; and of colorAdjustment           *)
(* (src/viewer/scene/PerformanceModel/lib/colorAdjustment.js).             *)
(*                                                                         *)
(* JavaScript values are tagged records, so that undefined, null, numbers, *)
(* booleans and strings can be told apart the way the code tells them      *)
(* apart (default parameters apply to undefined only, `||` and `?:` test   *)
(* truthiness, `+ "px"` formats a number into a string).                   *)
(***************************************************************************)
EXTENDS Integers, Sequences, FiniteSets, TLC

VARIABLES
    navCube,    \* the NavCubePlugin object: its fields, its canvas and its two meshes
    boundary,   \* viewer.scene.canvas.boundary, [x, y, w, h]
    cfg,        \* the configuration the constructor was called with
    fresh,      \* TRUE until the first operation or event after the constructor returns
    mouse,      \* the variables the constructor's mouse handlers close over
    texture,    \* the CubeTextureCanvas's highlighted areas and the image on the cube mesh
    cursor,     \* document.body.style.cursor
    flight,     \* the last call of viewer.cameraFlight and whether its callback is due
    orbit,      \* the last orbitYaw / orbitPitch call on viewer.camera
    aabb,       \* viewer.scene.aabb, [xmin, ymin, zmin, xmax, ymax, zmax]
    listeners,  \* the subscriptions and DOM listeners of the plugin that are registered
    destroyed,  \* TRUE once destroy() has returned
    viewerCamera,   \* viewer.camera: eye, look, up, projection and perspective.fov
    navCubeCamera,  \* the NavCube scene's camera: eye, look, up, projection, perspective.fov
    src,        \* the list of shader lines colorAdjustment is called on
    src0,       \* that list as it was before the first call
    calls       \* the number of calls of colorAdjustment so far

layoutVars == <<navCube, boundary>>
mouseVars == <<mouse, texture, cursor, flight, orbit>>
viewerVars == <<listeners, destroyed, viewerCamera, navCubeCamera>>
shaderVars == <<src, src0, calls>>
vars == <<navCube, boundary, cfg, fresh, mouse, texture, cursor, flight, orbit, aabb,
          listeners, destroyed, viewerCamera, navCubeCamera, src, src0, calls>>

----------------------------------------------------------------------------
(* JavaScript values *)

Undefined == [undefined |-> TRUE]
Null == [null |-> TRUE]
Num(n) == [num |-> n]
Bool(b) == [bool |-> b]
Str(s) == [str |-> s]

IsNum(v) == "num" \in DOMAIN v
IsBool(v) == "bool" \in DOMAIN v
IsStr(v) == "str" \in DOMAIN v
\* an array of numbers (a vector)
Vec(v) == [vec |-> v]
IsVec(v) == "vec" \in DOMAIN v

\* ToBoolean: undefined, null, false, 0 and "" are falsy, an array is truthy
Truthy(v) ==
    IF IsBool(v) THEN v.bool
    ELSE IF IsNum(v) THEN v.num # 0
    ELSE IF IsStr(v) THEN v.str # ""
    ELSE IsVec(v)

\* a default parameter value (f(x = d)) replaces undefined only
Default(v, d) == IF v = Undefined THEN d ELSE v

\* a || b
Or(a, b) == IF Truthy(a) THEN a ELSE b

\* ToNumber of a number or null
ToNumber(v) == IF IsNum(v) THEN v.num ELSE 0

\* ToString of a value, as string concatenation applies it
JsToString(v) ==
    IF IsNum(v) THEN ToString(v.num)
    ELSE IF IsStr(v) THEN v.str
    ELSE IF IsBool(v) THEN (IF v.bool THEN "true" ELSE "false")
    ELSE IF v = Null THEN "null"
    ELSE "undefined"

\* v + "px"
Px(v) == Str(JsToString(v) \o "px")

----------------------------------------------------------------------------
(* Program constants *)

\* setSize(size = 200)
DefaultSize == 200
\* var size = cfg.size || 250
InitialCanvasSize == 250
\* setXMargin(xMargin = 10)
DefaultMargin == 10
\* setCameraFitFOV(cameraFitFOV = 45)
DefaultCameraFitFOV == 45
\* setCameraFlyDuration(cameraFlyDuration = 0.5), in tenths of a second
DefaultCameraFlyDuration == 5

\* the distance, in pixels, a mouseup may lie from the mousedown and still click
ClickTolerance == 3

Alignments == {"bottomRight", "bottomLeft", "topLeft", "topRight"}

----------------------------------------------------------------------------
(* Bounds of the model *)

\* the most error reports (Plugin.error) a run makes
MaxErrors == 2

\* the arguments the operations are called with
VisibleArgs == {Undefined, Bool(TRUE), Bool(FALSE)}
SizeArgs == {Undefined, Num(300)}
AlignmentArgs == {Undefined, Null, Str("center")} \cup {Str(a) : a \in Alignments}
MarginArgs == {Undefined, Null, Num(0)}
CameraFlyArgs == {Undefined, Bool(TRUE), Bool(FALSE)}
CameraFitFOVArgs == {Undefined, Num(60)}
CameraFlyDurationArgs == {Undefined, Num(10)}

\* the areas (faces, edges, corners) of the cube texture are 0 .. NumAreas - 1
NumAreas == 3
\* the most the accumulated yaw may grow to, either way, in half degrees
MaxYaw == 0

\* the mouse events: positions, e.which and e.buttons
Xs == {10, 13, 14}
Ys == {20, 24}
Whichs == {1, 3}
Buttonss == {0, 1}
\* each handler's events, with the fields the handler reads
MouseDownEvents == [x : Xs, y : Ys]
MouseUpEvents == [x : Xs, y : Ys, which : Whichs]
MouseMoveEvents == [x : Xs, y : Ys, buttons : Buttonss]

\* what navCubeScene.pick returns: null, a hit with no uv, or a hit whose uv
\* getArea maps to an area or to -1
NoHit == Null
HitNoUV == [hit |-> TRUE]
HitUV(areaId) == [hit |-> TRUE, area |-> areaId]
Hits == {NoHit, HitNoUV} \cup {HitUV(a) : a \in -1 .. NumAreas - 1}

\* the bounding boxes the Viewer's scene takes
Aabbs == {<<0, 0, 0, 2, 4, 4>>, <<-4, -8, -8, 4, 8, 8>>}

\* the boundaries the Viewer's canvas takes
Boundaries == {<<0, 0, 800, 600>>, <<5, 7, 640, 480>>}

EmptyCfg ==
    [visible |-> Undefined, size |-> Undefined, alignment |-> Undefined,
     leftMargin |-> Undefined, rightMargin |-> Undefined, topMargin |-> Undefined,
     bottomMargin |-> Undefined, cameraFitFOV |-> Undefined, cameraFly |-> Undefined,
     cameraFlyDuration |-> Undefined]

\* the configurations the constructor is called with
Cfgs ==
    {EmptyCfg,
     [EmptyCfg EXCEPT !.size = Num(300), !.alignment = Str("topLeft"),
                      !.visible = Bool(FALSE)],
     [EmptyCfg EXCEPT !.alignment = Str("center"), !.bottomMargin = Null,
                      !.cameraFly = Bool(FALSE)]}

\* every configuration over the arguments above
AllCfgs ==
    [visible : VisibleArgs, size : SizeArgs, alignment : AlignmentArgs,
     leftMargin : {Undefined, Num(0)}, rightMargin : {Undefined, Num(0)},
     topMargin : {Undefined, Null}, bottomMargin : {Undefined, Num(0)},
     cameraFitFOV : CameraFitFOVArgs, cameraFly : CameraFlyArgs,
     cameraFlyDuration : CameraFlyDurationArgs]

----------------------------------------------------------------------------
(* NavCubePlugin: the methods, as functions from the object to the object *)

\* boundary[i], with JavaScript's indices
At(b, i) == b[i + 1]

\* _updateLayout with the right-aligned position measured from the page's left
\* edge instead of the canvas's (boundary[0] dropped)
_updateLayout_NoOrigin(self, b) ==
    LET size == self.size
        sized == [self.style EXCEPT !.width = Px(size), !.height = Px(size)]
        bottom == Px(Num(At(b, 1) + At(b, 3) - ToNumber(size) - ToNumber(self.bottomMargin)))
        right == Px(Num(At(b, 2) - ToNumber(size) - ToNumber(self.rightMargin)))
        placed ==
            CASE self.alignment = Str("bottomRight") ->
                    [sized EXCEPT !.top = bottom, !.left = right]
              [] self.alignment = Str("bottomLeft") ->
                    [sized EXCEPT !.top = bottom, !.left = Px(self.leftMargin)]
              [] self.alignment = Str("topLeft") ->
                    [sized EXCEPT !.top = Px(self.topMargin), !.left = Px(self.leftMargin)]
              [] self.alignment = Str("topRight") ->
                    [sized EXCEPT !.top = Px(self.topMargin), !.left = right]
              [] OTHER -> sized
    IN  [self EXCEPT !.style = placed, !.needUpdateLayout = FALSE]

\* _updateLayout with "bottomLeft" placed by the right margin
_updateLayout_WrongMargin(self, b) ==
    LET size == self.size
        sized == [self.style EXCEPT !.width = Px(size), !.height = Px(size)]
        bottom == Px(Num(At(b, 1) + At(b, 3) - ToNumber(size) - ToNumber(self.bottomMargin)))
        right == Px(Num(At(b, 0) + At(b, 2) - ToNumber(size) - ToNumber(self.rightMargin)))
        placed ==
            CASE self.alignment = Str("bottomRight") ->
                    [sized EXCEPT !.top = bottom, !.left = right]
              [] self.alignment = Str("bottomLeft") ->
                    [sized EXCEPT !.top = bottom, !.left = Px(self.rightMargin)]
              [] self.alignment = Str("topLeft") ->
                    [sized EXCEPT !.top = Px(self.topMargin), !.left = Px(self.leftMargin)]
              [] self.alignment = Str("topRight") ->
                    [sized EXCEPT !.top = Px(self.topMargin), !.left = right]
              [] OTHER -> sized
    IN  [self EXCEPT !.style = placed, !.needUpdateLayout = FALSE]

_updateLayout(self, b) ==
    LET size == self.size
        sized == [self.style EXCEPT !.width = Px(size), !.height = Px(size)]
        bottom == Px(Num(At(b, 1) + At(b, 3) - ToNumber(size) - ToNumber(self.bottomMargin)))
        right == Px(Num(At(b, 0) + At(b, 2) - ToNumber(size) - ToNumber(self.rightMargin)))
        placed ==
            CASE self.alignment = Str("bottomRight") ->
                    [sized EXCEPT !.top = bottom, !.left = right]
              [] self.alignment = Str("bottomLeft") ->
                    [sized EXCEPT !.top = bottom, !.left = Px(self.leftMargin)]
              [] self.alignment = Str("topLeft") ->
                    [sized EXCEPT !.top = Px(self.topMargin), !.left = Px(self.leftMargin)]
              [] self.alignment = Str("topRight") ->
                    [sized EXCEPT !.top = Px(self.topMargin), !.left = right]
              [] OTHER -> sized
    IN  [self EXCEPT !.style = placed, !.needUpdateLayout = FALSE]

\* setVisible that leaves the shadow mesh alone
setVisible_NoShadow(self, visibleArg) ==
    LET visible == Default(visibleArg, Bool(TRUE))
    IN  [self EXCEPT !.cubeMeshVisible = visible,
                     !.style.visibility = IF Truthy(visible) THEN Str("visible") ELSE Str("hidden"),
                     !.needUpdateLayout = TRUE]

setVisible(self, visibleArg) ==
    LET visible == Default(visibleArg, Bool(TRUE))
    IN  [self EXCEPT !.cubeMeshVisible = visible,
                     !.shadowVisible = visible,
                     !.style.visibility = IF Truthy(visible) THEN Str("visible") ELSE Str("hidden"),
                     !.needUpdateLayout = TRUE]

getVisible(self) == self.cubeMeshVisible

\* setSize with the constructor's initial canvas size as its default
setSize_InitialDefault(self, sizeArg) ==
    LET size == Default(sizeArg, Num(InitialCanvasSize))
    IN  [self EXCEPT !.size = size,
                     !.canvasWidth = size,
                     !.canvasHeight = size,
                     !.needUpdateLayout = TRUE]

setSize(self, sizeArg) ==
    LET size == Default(sizeArg, Num(DefaultSize))
    IN  [self EXCEPT !.size = size,
                     !.canvasWidth = size,
                     !.canvasHeight = size,
                     !.needUpdateLayout = TRUE]

getSize(self) == self.size

\* setAlignment that reports the illegal value and stores it all the same
setAlignment_NoFallback(self, alignmentArg) ==
    LET alignment == Default(alignmentArg, Str("bottomRight"))
        illegal == /\ alignment # Str("bottomRight")
                   /\ alignment # Str("bottomLeft")
                   /\ alignment # Str("topLeft")
                   /\ alignment # Str("topRight")
    IN  [self EXCEPT !.errors = IF illegal THEN @ + 1 ELSE @,
                     !.alignment = alignment,
                     !.needUpdateLayout = TRUE]

setAlignment(self, alignmentArg) ==
    LET alignment == Default(alignmentArg, Str("bottomRight"))
        illegal == /\ alignment # Str("bottomRight")
                   /\ alignment # Str("bottomLeft")
                   /\ alignment # Str("topLeft")
                   /\ alignment # Str("topRight")
    IN  [self EXCEPT !.errors = IF illegal THEN @ + 1 ELSE @,
                     !.alignment = IF illegal THEN Str("bottomRight") ELSE alignment,
                     !.needUpdateLayout = TRUE]

getAlignment(self) == self.alignment

\* (m !== null && m !== undefined) ? m : 10, after the default parameter
MarginOrDefault(marginArg) ==
    LET m == Default(marginArg, Num(DefaultMargin))
    IN  IF m # Null /\ m # Undefined THEN m ELSE Num(DefaultMargin)

setLeftMargin(self, leftMargin) ==
    [self EXCEPT !.leftMargin = MarginOrDefault(leftMargin), !.needUpdateLayout = TRUE]

getLeftMargin(self) == self.leftMargin

\* setRightMargin that assigns the left margin
setRightMargin_CopyPaste(self, rightMargin) ==
    [self EXCEPT !.leftMargin = MarginOrDefault(rightMargin), !.needUpdateLayout = TRUE]

setRightMargin(self, rightMargin) ==
    [self EXCEPT !.rightMargin = MarginOrDefault(rightMargin), !.needUpdateLayout = TRUE]

getRightMargin(self) == self.rightMargin

\* setTopMargin that does not mark the layout dirty
setTopMargin_NotDirty(self, topMargin) ==
    [self EXCEPT !.topMargin = MarginOrDefault(topMargin)]

setTopMargin(self, topMargin) ==
    [self EXCEPT !.topMargin = MarginOrDefault(topMargin), !.needUpdateLayout = TRUE]

getTopMargin(self) == self.topMargin

setBottomMargin(self, bottomMargin) ==
    [self EXCEPT !.bottomMargin = MarginOrDefault(bottomMargin), !.needUpdateLayout = TRUE]

getBottomMargin(self) == self.bottomMargin

\* setCameraFly that marks the layout as the layout setters do
setCameraFly_Dirty(self, cameraFly) ==
    [self EXCEPT !.cameraFly = Default(cameraFly, Bool(TRUE)), !.needUpdateLayout = TRUE]

setCameraFly(self, cameraFly) ==
    [self EXCEPT !.cameraFly = Default(cameraFly, Bool(TRUE))]

getCameraFly(self) == self.cameraFly

setCameraFitFOV(self, cameraFitFOV) ==
    [self EXCEPT !.cameraFitFOV = Default(cameraFitFOV, Num(DefaultCameraFitFOV))]

getCameraFitFOV(self) == self.cameraFitFOV

setCameraFlyDuration(self, cameraFlyDuration) ==
    [self EXCEPT !.cameraFlyDuration = Default(cameraFlyDuration, Num(DefaultCameraFlyDuration))]

getCameraFlyDuration(self) == self.cameraFlyDuration

\* the object as the constructor has it before it applies cfg through the setters
Created(c) ==
    LET visible == Bool(TRUE)
        size == Or(c.size, Num(InitialCanvasSize))
    IN  [size |-> Undefined, alignment |-> Undefined,
         leftMargin |-> Undefined, rightMargin |-> Undefined,
         topMargin |-> Undefined, bottomMargin |-> Undefined,
         cameraFly |-> Undefined, cameraFitFOV |-> Undefined,
         cameraFlyDuration |-> Undefined,
         needUpdateLayout |-> FALSE,
         canvasWidth |-> Undefined, canvasHeight |-> Undefined,
         style |-> [height |-> Px(size), width |-> Px(size),
                    top |-> Str("0px"), left |-> Str("0px"),
                    visibility |-> IF Truthy(visible) THEN Str("visible") ELSE Str("hidden")],
         cubeMeshVisible |-> Bool(Truthy(visible)),
         shadowVisible |-> Bool(Truthy(visible)),
         errors |-> 0]

constructor(c) ==
    LET s0 == Created(c)
        s1 == setVisible(s0, c.visible)
        s2 == setSize(s1, c.size)
        s3 == setAlignment(s2, c.alignment)
        s4 == setLeftMargin(s3, c.leftMargin)
        s5 == setRightMargin(s4, c.rightMargin)
        s6 == setTopMargin(s5, c.topMargin)
        s7 == setBottomMargin(s6, c.bottomMargin)
        s8 == setCameraFitFOV(s7, c.cameraFitFOV)
        s9 == setCameraFly(s8, c.cameraFly)
    IN  setCameraFlyDuration(s9, c.cameraFlyDuration)

----------------------------------------------------------------------------
(* The CubeTextureCanvas and the math library, as the plugin uses them *)

\* getAreaDir(areaId): every third area has no direction
getAreaDir(areaId) ==
    CASE areaId % 3 = 0 -> Vec(<<0, 0, -1>>)
      [] areaId % 3 = 1 -> Vec(<<1, 0, 0>>)
      [] OTHER -> Undefined

\* getAreaUp(areaId): only every third area has an up vector
getAreaUp(areaId) == IF areaId % 3 = 0 THEN Vec(<<0, 1, 1>>) ELSE Undefined

setAreaHighlighted(tex, areaId, highlighted) ==
    [tex EXCEPT !.highlighted = IF highlighted THEN @ \cup {areaId} ELSE @ \ {areaId}]

\* math.getAABB3Center(aabb, center)
getAABB3Center(box) ==
    <<(box[1] + box[4]) \div 2, (box[2] + box[5]) \div 2, (box[3] + box[6]) \div 2>>

\* math.getAABB3Diag(aabb), for boxes whose diagonal is a whole number
getAABB3Diag(box) ==
    LET dx == box[4] - box[1]
        dy == box[5] - box[2]
        dz == box[6] - box[3]
        sq == dx * dx + dy * dy + dz * dz
    IN  CHOOSE d \in 0 .. dx + dy + dz : d * d = sq

----------------------------------------------------------------------------
(* The constructor's mouse handlers, as functions of the state they close over:
   st.mouse, st.texture, st.cursor, st.flight and st.orbit *)

\* the closure's variables as the constructor leaves them
MouseCreated ==
    [downX |-> Null, downY |-> Null, down |-> FALSE, over |-> FALSE,
     yaw |-> 0, pitch |-> Num(0), lastX |-> Undefined, lastY |-> Undefined,
     lastAreaId |-> -1]

_repaint(tex) == [tex EXCEPT !.image = tex.highlighted]

\* if (lastAreaId >= 0) { setAreaHighlighted(lastAreaId, false); _repaint(); lastAreaId = -1 }
\* unhighlighting the last area without repainting
Unhighlight_NoRepaint(st) ==
    IF st.mouse.lastAreaId >= 0
    THEN [st EXCEPT !.texture = setAreaHighlighted(@, st.mouse.lastAreaId, FALSE),
                    !.mouse.lastAreaId = -1]
    ELSE st

Unhighlight(st) ==
    IF st.mouse.lastAreaId >= 0
    THEN [st EXCEPT !.texture = _repaint(setAreaHighlighted(@, st.mouse.lastAreaId, FALSE)),
                    !.mouse.lastAreaId = -1]
    ELSE st

\* setAreaHighlighted(areaId, true); lastAreaId = areaId; _repaint()
Highlight(st, areaId) ==
    [st EXCEPT !.texture = _repaint(setAreaHighlighted(@, areaId, TRUE)),
               !.mouse.lastAreaId = areaId]

\* flyTo that flies whatever cameraFly says
flyTo_AlwaysFly(self, box, dir, up) ==
    LET diag == getAABB3Diag(box)
        center == getAABB3Center(box)
        eye == [center |-> center, diag |-> diag, dir |-> dir.vec]
    IN  [method |-> "flyTo", look |-> Vec(center), eye |-> eye,
         up |-> Or(up, Vec(<<0, 1, 0>>)), orthoScale |-> diag * 13,
         fitFOV |-> self.cameraFitFOV, duration |-> self.cameraFlyDuration]

\* the closure flyTo(dir, up, ok): the call it makes of viewer.cameraFlight. The
\* eye is center - dist * dir with dist = |diag / tan(55 / 2)|, kept as its terms;
\* orthoScale = diag * 1.3 is kept in tenths.
flyTo(self, box, dir, up) ==
    LET diag == getAABB3Diag(box)
        center == getAABB3Center(box)
        eye == [center |-> center, diag |-> diag, dir |-> dir.vec]
    IN  IF Truthy(self.cameraFly)
        THEN [method |-> "flyTo", look |-> Vec(center), eye |-> eye,
              up |-> Or(up, Vec(<<0, 1, 0>>)), orthoScale |-> diag * 13,
              fitFOV |-> self.cameraFitFOV, duration |-> self.cameraFlyDuration]
        ELSE [method |-> "jumpTo", look |-> Vec(center), eye |-> eye,
              up |-> Or(up, Vec(<<0, 1, 0>>)), orthoScale |-> diag * 13,
              fitFOV |-> self.cameraFitFOV]

\* a call of viewer.cameraFlight, its callback now due
Flown(fl, call) == [call |-> call, ok |-> TRUE, seq |-> 1 - fl.seq]

_onMouseEnter(st) == [st EXCEPT !.mouse.over = TRUE]

_onMouseLeave(st) == [st EXCEPT !.mouse.over = FALSE]

\* the "mousedown" handler starting a drag whatever the pick returns
_onMouseDown_AlwaysDown(st, e, hit) ==
    [st EXCEPT !.mouse.downX = Num(e.x),
               !.mouse.downY = Num(e.y),
               !.mouse.lastX = Num(e.x),
               !.mouse.lastY = Num(e.y),
               !.mouse.down = TRUE]

\* the "mousedown" handler of the NavCube canvas
_onMouseDown(st, e, hit) ==
    [st EXCEPT !.mouse.downX = Num(e.x),
               !.mouse.downY = Num(e.y),
               !.mouse.lastX = Num(e.x),
               !.mouse.lastY = Num(e.y),
               !.mouse.down = (hit # NoHit)]

\* the "mouseup" handler comparing only the x coordinate with the mousedown's
_onMouseUp_XOnly(st, self, box, e, hit) ==
    IF e.which # 1
    THEN st
    ELSE
      LET st1 == [st EXCEPT !.mouse.down = FALSE]
      IN  IF st1.mouse.downX = Null \/ hit = NoHit \/ hit = HitNoUV
          THEN st1
          ELSE
            LET areaId == hit.area
                st2 == Highlight(Unhighlight([st1 EXCEPT !.cursor = "pointer"]), areaId)
                away == \/ e.x < st.mouse.downX.num - ClickTolerance
                        \/ e.x > st.mouse.downX.num + ClickTolerance
                dir == getAreaDir(areaId)
                up == getAreaUp(areaId)
            IN  IF areaId < 0 THEN st1
                ELSE IF away \/ ~Truthy(dir) THEN st2
                ELSE [st2 EXCEPT !.flight = Flown(@, flyTo(self, box, dir, up))]

\* the "mouseup" handler of the document
_onMouseUp(st, self, box, e, hit) ==
    IF e.which # 1
    THEN st
    ELSE
      LET st1 == [st EXCEPT !.mouse.down = FALSE]
      IN  IF st1.mouse.downX = Null \/ hit = NoHit \/ hit = HitNoUV
          THEN st1
          ELSE
            LET areaId == hit.area
                st2 == Highlight(Unhighlight([st1 EXCEPT !.cursor = "pointer"]), areaId)
                away == \/ e.x < st.mouse.downX.num - ClickTolerance
                        \/ e.x > st.mouse.downX.num + ClickTolerance
                        \/ e.y < st.mouse.downY.num - ClickTolerance
                        \/ e.y > st.mouse.downY.num + ClickTolerance
                dir == getAreaDir(areaId)
                up == getAreaUp(areaId)
            IN  IF areaId < 0 THEN st1
                ELSE IF away \/ ~Truthy(dir) THEN st2
                ELSE [st2 EXCEPT !.flight = Flown(@, flyTo(self, box, dir, up))]

\* the callback _onMouseUp hands to flyTo
_onFlightDone(st, hit) ==
    LET st1 == [Unhighlight(st) EXCEPT !.flight.ok = FALSE]
    IN  IF hit = NoHit \/ hit = HitNoUV
        THEN st1
        ELSE
          LET areaId == hit.area
              st2 == Unhighlight([st1 EXCEPT !.cursor = "pointer"])
          IN  IF areaId >= 0 THEN Highlight(st2, areaId) ELSE st2

\* actionMove(posX, posY); sensitivity is 0.5, so yaw, pitch and the increments
\* are kept in halves. minPitch and maxPitch are null, which compares as 0.
actionMove(st, posX, posY) ==
    LET yawInc == -(posX - st.mouse.lastX.num)
        pitchInc == -(posY - st.mouse.lastY.num)
        pitch0 == Num(ToNumber(st.mouse.pitch) - pitchInc)
        pitch1 == IF ToNumber(pitch0) < 0 THEN Null ELSE pitch0
        pitch2 == IF ToNumber(pitch1) > 0 THEN Null ELSE pitch1
    IN  [st EXCEPT !.mouse.yaw = @ - yawInc,
                   !.mouse.pitch = pitch2,
                   !.orbit = [yaw |-> Num(yawInc), pitch |-> Num(-pitchInc), seq |-> 1 - @.seq],
                   !.mouse.lastX = Num(posX),
                   !.mouse.lastY = Num(posY)]

_onMouseMove(st, e, hit) ==
    LET st1 == Unhighlight(st)
    IN  IF e.buttons = 1 /\ ~st1.mouse.down THEN st1
        ELSE IF st1.mouse.down THEN actionMove([st1 EXCEPT !.cursor = "move"], e.x, e.y)
        ELSE IF ~st1.mouse.over THEN st1
        ELSE IF hit = NoHit THEN Unhighlight([st1 EXCEPT !.cursor = "default"])
        ELSE IF hit = HitNoUV THEN st1
        ELSE
          LET areaId == hit.area
              st2 == [st1 EXCEPT !.cursor = "pointer"]
          IN  IF areaId = st2.mouse.lastAreaId THEN st2
              ELSE IF areaId >= 0
                   THEN Highlight([st2 EXCEPT !.texture =
                                      IF st2.mouse.lastAreaId >= 0
                                      THEN setAreaHighlighted(@, st2.mouse.lastAreaId, FALSE)
                                      ELSE @], areaId)
                   ELSE st2

----------------------------------------------------------------------------
(* The camera subscriptions, the DOM listeners and destroy() *)

\* the viewer camera's poses, projections and fields of view the events carry;
\* eye and look differ in every pose (normalizeVec3 divides by their distance)
Eyes == {<<0, 0, 10>>, <<3, 4, 0>>, <<1, 2, 2>>}
Looks == {<<0, 0, 0>>, <<1, 1, 1>>}
Ups == {<<0, 1, 0>>, <<0, 0, 1>>}
Projections == {"perspective", "ortho"}
Fovs == {45, 60, 90}

\* math.subVec3(u, v)
subVec3(u, v) == <<u[1] - v[1], u[2] - v[2], u[3] - v[3]>>

\* math.dotVec3(u, v)
dotVec3(u, v) == u[1] * v[1] + u[2] * v[2] + u[3] * v[3]

\* math.normalizeVec3(v): v times 1 / lenVec3(v). The length is a square root, so
\* the result is kept exact as the vector num / sqrt(den2)
normalizeVec3(v) == [num |-> v, den2 |-> dotVec3(v, v)]

\* math.mulVec3Scalar(v, s), of a vector num / sqrt(den2)
mulVec3Scalar(v, s) == [v EXCEPT !.num = <<v.num[1] * s, v.num[2] * s, v.num[3] * s>>]

\* math.rotationMat4c(-90 * math.DEGTORAD, 1, 0, 0), its rotation rows
matrix == <<<<1, 0, 0>>, <<0, 0, 1>>, <<0, -1, 0>>>>

\* math.transformVec3(m, p) and, m being a rotation, math.transformPoint3(m, p)
transformVec3(m, p) == <<dotVec3(m[1], p), dotVec3(m[2], p), dotVec3(m[3], p)>>

\* this._zUp, which the constructor sets and nothing changes
_zUp == FALSE

\* _synchCamera with the eye pointing from the viewer's eye to its look
_synchCamera_Reversed(cam, vc) ==
    LET eyeLookVec == mulVec3Scalar(normalizeVec3(subVec3(vc.look, vc.eye)), 5)
    IN  [cam EXCEPT !.look = <<0, 0, 0>>, !.eye = eyeLookVec, !.up = vc.up]

\* this._synchCamera(): cam is the NavCube camera, vc is viewer.camera
_synchCamera(cam, vc) ==
    LET eyeLookVec == mulVec3Scalar(normalizeVec3(subVec3(vc.eye, vc.look)), 5)
    IN  IF _zUp
        THEN [cam EXCEPT !.look = <<0, 0, 0>>,
                         !.eye = [eyeLookVec EXCEPT !.num = transformVec3(matrix, @)],
                         !.up = transformVec3(matrix, vc.up)]
        ELSE [cam EXCEPT !.look = <<0, 0, 0>>,
                         !.eye = eyeLookVec,
                         !.up = vc.up]

\* the "fov" handler also switching the NavCube camera to the perspective projection
_onCameraFOV_Perspective(cam, fov) == [cam EXCEPT !.fov = fov, !.projection = "perspective"]

\* the handler of viewer.camera.perspective's "fov"
_onCameraFOV(cam, fov) == [cam EXCEPT !.fov = fov]

\* the handler of viewer.camera's "projection"
_onCameraProjection(cam, projection) == [cam EXCEPT !.projection = projection]

\* a new Camera: xeokit's default pose, projection and field of view
CameraCreated ==
    [eye |-> <<0, 0, 10>>, look |-> <<0, 0, 0>>, up |-> <<0, 1, 0>>,
     projection |-> "perspective", fov |-> 60]

\* the subscriptions and DOM listeners whose handle or function the constructor
\* keeps in a field of the plugin, by the name of that field
Handles ==
    {"_onCameraMatrix", "_onCameraWorldAxis", "_onCameraFOV", "_onCameraProjection",
     "_onCanvasBoundary", "_onSceneTick",
     "_onMouseEnter", "_onMouseLeave", "_onMouseDown", "_onMouseUp", "_onMouseMove"}

\* the second subscription to viewer.camera's "worldAxis", whose handle the
\* constructor does not keep
WorldAxisUnkept == "worldAxis"

\* every subscription and DOM listener the constructor registers
Registered == Handles \cup {WorldAxisUnkept}

\* off(handle) of a Component, and removeEventListener(type, listener) of the DOM
off(ls, handle) == ls \ {handle}

\* destroy(), on the registered subscriptions and listeners
destroy(ls) ==
    LET l1 == off(ls, "_onCanvasBoundary")
        l2 == off(l1, "_onSceneTick")
        l3 == off(l2, "_onCameraMatrix")
        l4 == off(l3, "_onCameraWorldAxis")
        l5 == off(l4, "_onCameraFOV")
        l6 == off(l5, "_onCameraProjection")
        l7 == off(l6, "_onMouseEnter")
        l8 == off(l7, "_onMouseLeave")
        l9 == off(l8, "_onMouseDown")
        l10 == off(l9, "_onMouseMove")
    IN  off(l10, "_onMouseUp")

----------------------------------------------------------------------------
(* colorAdjustment *)

\* the most calls of colorAdjustment on one list, and the most lines the list
\* holds before the first
MaxCalls == 2
MaxSrcLen == 3

\* lines a shader's source holds before colorAdjustment is called on it, two of
\* them lines that colorAdjustment pushes too
Lines == {"precision mediump float;", "uniform vec4 colorParams;", "}"}
Srcs == UNION {[1 .. n -> Lines] : n \in 0 .. MaxSrcLen}

\* colorAdjustment without the push of the closing brace
colorAdjustment_NoBrace(s) ==
    LET s1 == Append(s, "uniform vec4 colorParams;")
        s2 == Append(s1, "vec4 brightnessSaturationAndConstrast(vec4 color) {")
        s3 == Append(s2, "float brightness = colorParams.r;")
        s4 == Append(s3, "float saturation = colorParams.g;")
        s5 == Append(s4, "float contrast = colorParams.b;")
        s6 == Append(s5, "vec3 finalColor = color.rgb * brightness;")
        s7 == Append(s6, "float luminance = 0.2125 * color.r + 0.7154 * color.g + 0.0721 * color.b;")
        s8 == Append(s7, "vec3 luminanceColor = vec3(luminance);")
        s9 == Append(s8, "finalColor = mix(luminanceColor,finalColor,saturation);")
        s10 == Append(s9, "vec3 avgColor = vec3(0.5);")
        s11 == Append(s10, "finalColor = clamp(mix(avgColor,finalColor,contrast),0.0,1.0);")
        s12 == Append(s11, "return vec4(finalColor,color.a);")
    IN  s12

\* colorAdjustment(src): each src.push(line) appends line to src
colorAdjustment(s) ==
    LET s1 == Append(s, "uniform vec4 colorParams;")
        s2 == Append(s1, "vec4 brightnessSaturationAndConstrast(vec4 color) {")
        s3 == Append(s2, "float brightness = colorParams.r;")
        s4 == Append(s3, "float saturation = colorParams.g;")
        s5 == Append(s4, "float contrast = colorParams.b;")
        s6 == Append(s5, "vec3 finalColor = color.rgb * brightness;")
        s7 == Append(s6, "float luminance = 0.2125 * color.r + 0.7154 * color.g + 0.0721 * color.b;")
        s8 == Append(s7, "vec3 luminanceColor = vec3(luminance);")
        s9 == Append(s8, "finalColor = mix(luminanceColor,finalColor,saturation);")
        s10 == Append(s9, "vec3 avgColor = vec3(0.5);")
        s11 == Append(s10, "finalColor = clamp(mix(avgColor,finalColor,contrast),0.0,1.0);")
        s12 == Append(s11, "return vec4(finalColor,color.a);")
        s13 == Append(s12, "}")
    IN  s13

----------------------------------------------------------------------------
(* The state machine *)

\* the state the mouse handlers close over, in one record
Closure == [mouse |-> mouse, texture |-> texture, cursor |-> cursor,
            flight |-> flight, orbit |-> orbit]

MouseInit ==
    /\ mouse = MouseCreated
    /\ texture = [highlighted |-> {}, image |-> {}]
    /\ cursor = ""
    /\ flight = [call |-> Null, ok |-> FALSE, seq |-> 0]
    /\ orbit = [yaw |-> Null, pitch |-> Null, seq |-> 0]
    /\ aabb = <<0, 0, 0, 2, 4, 4>>

\* the constructor's subscriptions, and the two cameras before any event
ViewerInit ==
    /\ listeners = Registered
    /\ destroyed = FALSE
    /\ viewerCamera = CameraCreated
    /\ navCubeCamera = [CameraCreated EXCEPT !.eye = [num |-> @, den2 |-> 1]]

\* no shader is being built
ShaderInit ==
    /\ src = <<>>
    /\ src0 = <<>>
    /\ calls = 0

\* a handler ran and left the closure's state as st
Handled(st) ==
    /\ mouse' = st.mouse
    /\ texture' = st.texture
    /\ cursor' = st.cursor
    /\ flight' = st.flight
    /\ orbit' = st.orbit
    /\ fresh' = FALSE
    /\ UNCHANGED <<layoutVars, cfg, aabb, viewerVars, shaderVars>>

OnMouseEnter == "_onMouseEnter" \in listeners /\ Handled(_onMouseEnter(Closure))

OnMouseLeave == "_onMouseLeave" \in listeners /\ Handled(_onMouseLeave(Closure))

\* what navCubeScene.pick returns to a handler that gets as far as calling it with
\* pickSurface, and no hit for a handler that returns before
Picked(picks) == IF picks THEN Hits ELSE {NoHit}

\* the "mousedown" handler picks without pickSurface: a hit has no uv
OnMouseDown ==
    /\ "_onMouseDown" \in listeners
    /\ \E e \in MouseDownEvents, hit \in {NoHit, HitNoUV} :
        Handled(_onMouseDown(Closure, e, hit))

OnMouseUp ==
    /\ "_onMouseUp" \in listeners
    /\ \E e \in MouseUpEvents :
        \E hit \in Picked(e.which = 1 /\ mouse.downX # Null) :
            Handled(_onMouseUp(Closure, navCube, aabb, e, hit))

OnMouseMove ==
    /\ "_onMouseMove" \in listeners
    /\ \E e \in MouseMoveEvents :
        \E hit \in Picked(e.buttons # 1 /\ ~mouse.down /\ mouse.over) :
            LET st == _onMouseMove(Closure, e, hit)
            IN  /\ st.mouse.yaw \in -MaxYaw .. MaxYaw
                /\ Handled(st)

\* viewer.cameraFlight calls the callback of the last camera move
OnFlightDone ==
    /\ flight.ok
    /\ \E hit \in Hits : Handled(_onFlightDone(Closure, hit))

\* the Viewer's scene changes its bounding box
OnSceneAabb ==
    /\ aabb' \in Aabbs
    /\ fresh' = FALSE
    /\ UNCHANGED <<layoutVars, cfg, mouseVars, viewerVars, shaderVars>>

Init ==
    /\ cfg \in Cfgs
    /\ navCube = constructor(cfg)
    /\ boundary \in Boundaries
    /\ fresh = TRUE
    /\ MouseInit
    /\ ViewerInit
    /\ ShaderInit

Call(next) ==
    /\ next.errors <= MaxErrors
    /\ navCube' = next
    /\ fresh' = FALSE
    /\ UNCHANGED <<boundary, cfg, mouseVars, aabb, viewerVars, shaderVars>>

SetVisible == \E v \in VisibleArgs : Call(setVisible(navCube, v))
SetSize == \E s \in SizeArgs : Call(setSize(navCube, s))
SetAlignment == \E a \in AlignmentArgs : Call(setAlignment(navCube, a))
SetLeftMargin == \E m \in MarginArgs : Call(setLeftMargin(navCube, m))
SetRightMargin == \E m \in MarginArgs : Call(setRightMargin(navCube, m))
SetTopMargin == \E m \in MarginArgs : Call(setTopMargin(navCube, m))
SetBottomMargin == \E m \in MarginArgs : Call(setBottomMargin(navCube, m))
SetCameraFly == \E f \in CameraFlyArgs : Call(setCameraFly(navCube, f))
SetCameraFitFOV == \E f \in CameraFitFOVArgs : Call(setCameraFitFOV(navCube, f))
SetCameraFlyDuration ==
    \E d \in CameraFlyDurationArgs : Call(setCameraFlyDuration(navCube, d))

\* viewer.scene.canvas fires "boundary" with its new boundary
OnCanvasBoundary ==
    \E b \in Boundaries :
        /\ boundary' = b
        /\ navCube' = IF "_onCanvasBoundary" \in listeners
                      THEN [navCube EXCEPT !.needUpdateLayout = TRUE]
                      ELSE navCube
        /\ fresh' = FALSE
        /\ UNCHANGED <<cfg, mouseVars, aabb, viewerVars, shaderVars>>

\* viewer.scene fires "tick"
OnSceneTick ==
    /\ navCube' = IF "_onSceneTick" \in listeners /\ navCube.needUpdateLayout
                  THEN _updateLayout(navCube, boundary)
                  ELSE navCube
    /\ fresh' = FALSE
    /\ UNCHANGED <<boundary, cfg, mouseVars, aabb, viewerVars, shaderVars>>

\* the application moves viewer.camera
SetViewerCamera ==
    /\ \E eye \in Eyes, look \in Looks, up \in Ups :
        /\ eye # look
        /\ viewerCamera' = [viewerCamera EXCEPT !.eye = eye, !.look = look, !.up = up]
    /\ fresh' = FALSE
    /\ UNCHANGED <<layoutVars, cfg, mouseVars, aabb, listeners, destroyed, navCubeCamera,
                   shaderVars>>

\* an event of viewer.camera ran the plugin's handlers and left its camera as cam
CameraHandled(cam) ==
    /\ navCubeCamera' = cam
    /\ fresh' = FALSE
    /\ UNCHANGED <<layoutVars, cfg, mouseVars, aabb, listeners, destroyed, shaderVars>>

\* viewer.camera fires "matrix"
OnCameraMatrix ==
    /\ UNCHANGED viewerCamera
    /\ CameraHandled(IF "_onCameraMatrix" \in listeners
                     THEN _synchCamera(navCubeCamera, viewerCamera)
                     ELSE navCubeCamera)

\* viewer.camera fires "worldAxis": both subscriptions to it are called, and the
\* second one's handler is empty
OnCameraWorldAxis ==
    /\ UNCHANGED viewerCamera
    /\ CameraHandled(IF "_onCameraWorldAxis" \in listeners
                     THEN _synchCamera(navCubeCamera, viewerCamera)
                     ELSE navCubeCamera)

\* viewer.camera.perspective gets a new field of view and fires "fov"
OnCameraFOV ==
    \E fov \in Fovs :
        /\ viewerCamera' = [viewerCamera EXCEPT !.fov = fov]
        /\ CameraHandled(IF "_onCameraFOV" \in listeners
                         THEN _onCameraFOV(navCubeCamera, fov)
                         ELSE navCubeCamera)

\* viewer.camera gets a new projection and fires "projection"
OnCameraProjection ==
    \E projection \in Projections :
        /\ viewerCamera' = [viewerCamera EXCEPT !.projection = projection]
        /\ CameraHandled(IF "_onCameraProjection" \in listeners
                         THEN _onCameraProjection(navCubeCamera, projection)
                         ELSE navCubeCamera)

\* the application calls destroy()
Destroy ==
    /\ listeners' = destroy(listeners)
    /\ destroyed' = TRUE
    /\ fresh' = FALSE
    /\ UNCHANGED <<layoutVars, cfg, mouseVars, aabb, viewerCamera, navCubeCamera, shaderVars>>

\* the operations that lay the NavCube out: visibility, size, alignment and margins,
\* the Viewer canvas's "boundary" event and the Scene's "tick"
Next ==
    \/ SetVisible
    \/ SetSize
    \/ SetAlignment
    \/ SetLeftMargin
    \/ SetRightMargin
    \/ SetTopMargin
    \/ SetBottomMargin
    \/ OnCanvasBoundary
    \/ OnSceneTick

Spec == Init /\ [][Next]_vars

\* every setter of the plugin, and the tick that lays it out
NextSetters ==
    \/ SetVisible
    \/ SetSize
    \/ SetAlignment
    \/ SetLeftMargin
    \/ SetRightMargin
    \/ SetTopMargin
    \/ SetBottomMargin
    \/ SetCameraFly
    \/ SetCameraFitFOV
    \/ SetCameraFlyDuration
    \/ OnSceneTick

InitSetters ==
    /\ cfg = EmptyCfg
    /\ navCube = constructor(cfg)
    /\ boundary = <<5, 7, 640, 480>>
    /\ fresh = TRUE
    /\ MouseInit
    /\ ViewerInit
    /\ ShaderInit

SpecSetters == InitSetters /\ [][NextSetters]_vars

\* construction with any configuration over the argument sets, then ticks and
\* boundary events
InitConstruct ==
    /\ cfg \in AllCfgs
    /\ navCube = constructor(cfg)
    /\ boundary \in Boundaries
    /\ fresh = TRUE
    /\ MouseInit
    /\ ViewerInit
    /\ ShaderInit

NextConstruct ==
    \/ OnCanvasBoundary
    \/ OnSceneTick

SpecConstruct == InitConstruct /\ [][NextConstruct]_vars

\* clicks on the cube: mousedown, mouseup and the camera move's callback, with
\* the camera settings and the scene's bounding box changing in between
NextClick ==
    \/ OnMouseDown
    \/ OnMouseUp
    \/ OnFlightDone
    \/ OnSceneAabb
    \/ SetCameraFly
    \/ SetCameraFitFOV
    \/ SetCameraFlyDuration

SpecClick == InitSetters /\ [][NextClick]_vars

\* the mouse handlers alone
NextMouse ==
    \/ OnMouseEnter
    \/ OnMouseLeave
    \/ OnMouseDown
    \/ OnMouseMove
    \/ OnMouseUp
    \/ OnFlightDone

SpecMouse == InitSetters /\ [][NextMouse]_vars

\* a shader builder calls colorAdjustment(src)
ColorAdjustment ==
    /\ calls < MaxCalls
    /\ src' = colorAdjustment(src)
    /\ calls' = calls + 1
    /\ fresh' = FALSE
    /\ UNCHANGED <<layoutVars, cfg, mouseVars, aabb, viewerVars, src0>>

\* a list of shader lines, and calls of colorAdjustment on it
InitColor ==
    /\ cfg = EmptyCfg
    /\ navCube = constructor(cfg)
    /\ boundary = <<5, 7, 640, 480>>
    /\ fresh = TRUE
    /\ MouseInit
    /\ ViewerInit
    /\ src0 \in Srcs
    /\ src = src0
    /\ calls = 0

NextColor == ColorAdjustment

SpecColor == InitColor /\ [][NextColor]_vars

\* drags on the cube: mousedown, mousemove and mouseup, with the mouse entering and
\* leaving the NavCube canvas
NextDrag ==
    \/ OnMouseEnter
    \/ OnMouseLeave
    \/ OnMouseDown
    \/ OnMouseMove
    \/ OnMouseUp

SpecDrag == InitSetters /\ [][NextDrag]_vars

\* the viewer's events and the plugin's teardown: the camera moves and fires its
\* events, the canvas and the scene fire theirs, the mouse enters and leaves the
\* NavCube canvas, and destroy() is called
NextViewer ==
    \/ SetViewerCamera
    \/ OnCameraMatrix
    \/ OnCameraWorldAxis
    \/ OnCameraFOV
    \/ OnCameraProjection
    \/ OnCanvasBoundary
    \/ OnSceneTick
    \/ OnMouseEnter
    \/ OnMouseLeave
    \/ Destroy

SpecViewer == InitSetters /\ [][NextViewer]_vars

----------------------------------------------------------------------------
(* Properties *)

AcceptedAlignments ==
    {Str("bottomRight"), Str("bottomLeft"), Str("topLeft"), Str("topRight")}

\* the value a getter returns after its setter was called with v, d being the default
Stored(v, d) == IF v = Undefined THEN d ELSE v

\* the value a margin getter returns after its setter was called with m
StoredMargin(m) == IF m = Null \/ m = Undefined THEN Num(10) ELSE m

\* C1: setSize(s) followed by getSize() returns s, setSize() makes getSize()
\* return 200, and a step that changes what getSize() returns is a setSize call.
C1_SetSizeGetSize ==
    [][/\ \A s \in SizeArgs :
            navCube' = setSize(navCube, s) => getSize(navCube') = Stored(s, Num(200))
       /\ getSize(navCube') # getSize(navCube) =>
            \E s \in SizeArgs : navCube' = setSize(navCube, s)]_vars

\* setSize(300) has run on a plugin constructed with no size
C1_Witness ==
    cfg.size = Undefined /\ getSize(navCube) = Num(300) /\ navCube.needUpdateLayout

\* C2: setAlignment with one of the four accepted values stores it and reports
\* nothing; with any other value passed (null, "center") it reports an error and
\* stores "bottomRight"; with no argument (undefined) the default "bottomRight"
\* is stored. In every reachable state getAlignment() is one of the four values.
C2_AlignmentValidated ==
    /\ [](getAlignment(navCube) \in AcceptedAlignments)
    /\ [][\A a \in AlignmentArgs :
            navCube' = setAlignment(navCube, a) =>
                IF a \in AcceptedAlignments
                THEN getAlignment(navCube') = a /\ navCube'.errors = navCube.errors
                ELSE IF a = Undefined
                THEN getAlignment(navCube') = Str("bottomRight")
                     /\ navCube'.errors = navCube.errors
                ELSE getAlignment(navCube') = Str("bottomRight")
                     /\ navCube'.errors = navCube.errors + 1]_vars

\* an illegal alignment was passed to setAlignment after a construction that
\* passed none, and "bottomRight" is stored
C2_Witness ==
    /\ cfg.alignment = Undefined
    /\ navCube.errors = 1
    /\ getAlignment(navCube) = Str("bottomRight")

\* C3: each margin setter called with a number m makes its getter return m,
\* called with null or undefined makes it return 10, and leaves the other three
\* margins, the size and the alignment unchanged.
C3_MarginSetters ==
    [][\A m \in MarginArgs :
        /\ navCube' = setLeftMargin(navCube, m) =>
            /\ getLeftMargin(navCube') = StoredMargin(m)
            /\ getRightMargin(navCube') = getRightMargin(navCube)
            /\ getTopMargin(navCube') = getTopMargin(navCube)
            /\ getBottomMargin(navCube') = getBottomMargin(navCube)
            /\ getSize(navCube') = getSize(navCube)
            /\ getAlignment(navCube') = getAlignment(navCube)
        /\ navCube' = setRightMargin(navCube, m) =>
            /\ getRightMargin(navCube') = StoredMargin(m)
            /\ getLeftMargin(navCube') = getLeftMargin(navCube)
            /\ getTopMargin(navCube') = getTopMargin(navCube)
            /\ getBottomMargin(navCube') = getBottomMargin(navCube)
            /\ getSize(navCube') = getSize(navCube)
            /\ getAlignment(navCube') = getAlignment(navCube)
        /\ navCube' = setTopMargin(navCube, m) =>
            /\ getTopMargin(navCube') = StoredMargin(m)
            /\ getLeftMargin(navCube') = getLeftMargin(navCube)
            /\ getRightMargin(navCube') = getRightMargin(navCube)
            /\ getBottomMargin(navCube') = getBottomMargin(navCube)
            /\ getSize(navCube') = getSize(navCube)
            /\ getAlignment(navCube') = getAlignment(navCube)
        /\ navCube' = setBottomMargin(navCube, m) =>
            /\ getBottomMargin(navCube') = StoredMargin(m)
            /\ getLeftMargin(navCube') = getLeftMargin(navCube)
            /\ getRightMargin(navCube') = getRightMargin(navCube)
            /\ getTopMargin(navCube') = getTopMargin(navCube)
            /\ getSize(navCube') = getSize(navCube)
            /\ getAlignment(navCube') = getAlignment(navCube)]_vars

\* after a construction with no margins, the right and bottom margins were set
\* to 0 and the other two were left at 10
C3_Witness ==
    /\ cfg = EmptyCfg
    /\ getRightMargin(navCube) = Num(0)
    /\ getBottomMargin(navCube) = Num(0)
    /\ getLeftMargin(navCube) = Num(10)
    /\ getTopMargin(navCube) = Num(10)

\* C4: setCameraFly, setCameraFitFOV and setCameraFlyDuration each make their
\* getter return the value set, or the default (true, 45, 0.5 s) when called
\* with no argument, and none of them changes the layout's dirty flag.
C4_CameraSetters ==
    [][/\ \A f \in CameraFlyArgs :
            navCube' = setCameraFly(navCube, f) =>
                /\ getCameraFly(navCube') = Stored(f, Bool(TRUE))
                /\ navCube'.needUpdateLayout = navCube.needUpdateLayout
       /\ \A f \in CameraFitFOVArgs :
            navCube' = setCameraFitFOV(navCube, f) =>
                /\ getCameraFitFOV(navCube') = Stored(f, Num(45))
                /\ navCube'.needUpdateLayout = navCube.needUpdateLayout
       /\ \A d \in CameraFlyDurationArgs :
            navCube' = setCameraFlyDuration(navCube, d) =>
                /\ getCameraFlyDuration(navCube') = Stored(d, Num(5))
                /\ navCube'.needUpdateLayout = navCube.needUpdateLayout]_vars

\* the three camera settings were changed from their defaults and the layout
\* is clean
C4_Witness ==
    /\ cfg = EmptyCfg
    /\ getCameraFly(navCube) = Bool(FALSE)
    /\ getCameraFitFOV(navCube) = Num(60)
    /\ getCameraFlyDuration(navCube) = Num(10)
    /\ ~navCube.needUpdateLayout

\* C5: right after construction with an empty configuration the getters return
\* the documented defaults and the NavCube canvas's style width and height are
\* 200 pixels, the value of getSize().
C5_ConstructedDefaults ==
    (fresh /\ cfg = EmptyCfg) =>
        /\ getVisible(navCube) = Bool(TRUE)
        /\ getSize(navCube) = Num(200)
        /\ getAlignment(navCube) = Str("bottomRight")
        /\ getLeftMargin(navCube) = Num(10)
        /\ getRightMargin(navCube) = Num(10)
        /\ getTopMargin(navCube) = Num(10)
        /\ getBottomMargin(navCube) = Num(10)
        /\ getCameraFly(navCube) = Bool(TRUE)
        /\ getCameraFitFOV(navCube) = Num(45)
        /\ getCameraFlyDuration(navCube) = Num(5)
        /\ navCube.style.width = Str("200px")
        /\ navCube.style.height = Str("200px")
        /\ navCube.style.width = Px(getSize(navCube))
        /\ navCube.style.height = Px(getSize(navCube))

\* the three indicators of visibility agree
VisibilityAgrees(self) ==
    /\ self.shadowVisible = self.cubeMeshVisible
    /\ self.cubeMeshVisible \in {Bool(TRUE), Bool(FALSE)}
    /\ self.style.visibility =
          IF self.cubeMeshVisible = Bool(TRUE) THEN Str("visible") ELSE Str("hidden")

\* C6: setVisible(v) with a boolean v makes getVisible() return v, setVisible()
\* makes the NavCube visible, and in every state the cube mesh's and the shadow
\* mesh's visible flags and the canvas's style visibility agree.
C6_VisibleAgrees ==
    /\ [] VisibilityAgrees(navCube)
    /\ [][\A v \in VisibleArgs :
            navCube' = setVisible(navCube, v) =>
                getVisible(navCube') = Stored(v, Bool(TRUE))]_vars

\* the NavCube was hidden after a construction that left it visible
C6_Witness ==
    /\ cfg.visible = Undefined
    /\ getVisible(navCube) = Bool(FALSE)
    /\ navCube.shadowVisible = Bool(FALSE)
    /\ navCube.style.visibility = Str("hidden")

\* the layout is up to date: the last thing to touch it was _updateLayout
LaidOut == ~navCube.needUpdateLayout

\* C7: after a layout update the left-aligned NavCube is leftMargin pixels from
\* the left edge of the Viewer's canvas (left = x + leftMargin) and the
\* top-aligned NavCube is topMargin pixels from its top edge (top = y + topMargin).
C7_LeftTopMargins ==
    LaidOut =>
        /\ getAlignment(navCube) \in {Str("topLeft"), Str("bottomLeft")} =>
            navCube.style.left = Px(Num(At(boundary, 0) + ToNumber(getLeftMargin(navCube))))
        /\ getAlignment(navCube) \in {Str("topLeft"), Str("topRight")} =>
            navCube.style.top = Px(Num(At(boundary, 1) + ToNumber(getTopMargin(navCube))))

\* C8: after a layout update the right-aligned NavCube satisfies
\* left + size + rightMargin = x + w and the bottom-aligned NavCube satisfies
\* top + size + bottomMargin = y + h.
C8_RightBottomMargins ==
    LaidOut =>
        /\ getAlignment(navCube) \in {Str("bottomRight"), Str("topRight")} =>
            navCube.style.left =
                Px(Num(At(boundary, 0) + At(boundary, 2)
                       - ToNumber(getSize(navCube)) - ToNumber(getRightMargin(navCube))))
        /\ getAlignment(navCube) \in {Str("bottomRight"), Str("bottomLeft")} =>
            navCube.style.top =
                Px(Num(At(boundary, 1) + At(boundary, 3)
                       - ToNumber(getSize(navCube)) - ToNumber(getBottomMargin(navCube))))

\* a 300 pixel NavCube with no right margin is laid out at the bottom right of a
\* canvas whose origin is not the page's
C8_Witness ==
    /\ LaidOut
    /\ getAlignment(navCube) = Str("bottomRight")
    /\ boundary = <<5, 7, 640, 480>>
    /\ getSize(navCube) = Num(300)
    /\ getRightMargin(navCube) = Num(0)
    /\ getBottomMargin(navCube) = Num(10)
    /\ navCube.style.left = Str("345px")
    /\ navCube.style.top = Str("177px")

\* the position the next layout update gives the NavCube
Position(self) ==
    LET laid == _updateLayout(self, boundary)
    IN  <<laid.style.left, laid.style.top>>

\* C9: a margin changes the position the next layout update computes only under
\* the alignments it applies to: left under "topLeft"/"bottomLeft", right under
\* "topRight"/"bottomRight", top under "topLeft"/"topRight", bottom under
\* "bottomLeft"/"bottomRight".
C9_MarginApplies ==
    \A m \in MarginArgs :
        /\ getAlignment(navCube) \notin {Str("topLeft"), Str("bottomLeft")} =>
            Position(setLeftMargin(navCube, m)) = Position(navCube)
        /\ getAlignment(navCube) \notin {Str("topRight"), Str("bottomRight")} =>
            Position(setRightMargin(navCube, m)) = Position(navCube)
        /\ getAlignment(navCube) \notin {Str("topLeft"), Str("topRight")} =>
            Position(setTopMargin(navCube, m)) = Position(navCube)
        /\ getAlignment(navCube) \notin {Str("bottomLeft"), Str("bottomRight")} =>
            Position(setBottomMargin(navCube, m)) = Position(navCube)

\* the right margin was changed while the NavCube was aligned "bottomLeft", and
\* the layout that followed placed it by the left and bottom margins
C9_Witness ==
    /\ cfg = EmptyCfg
    /\ LaidOut
    /\ getAlignment(navCube) = Str("bottomLeft")
    /\ getRightMargin(navCube) = Num(0)
    /\ navCube.style.left = Px(getLeftMargin(navCube))

\* the centre of a bounding box [xmin, ymin, zmin, xmax, ymax, zmax]
Centre(box) ==
    Vec(<<(box[1] + box[4]) \div 2, (box[2] + box[5]) \div 2, (box[3] + box[6]) \div 2>>)

\* this step calls viewer.cameraFlight
CameraMoveStarts == flight'.seq # flight.seq

\* C10: a click that starts a camera move calls cameraFlight.flyTo, with the
\* duration getCameraFlyDuration() returns, exactly when getCameraFly() is true,
\* and cameraFlight.jumpTo otherwise; either way fitFOV is getCameraFitFOV(),
\* look is the centre of the scene's bounding box and up is the clicked area's
\* up vector, or [0,1,0] when it has none.
C10_FlyOrJump ==
    [][CameraMoveStarts =>
        LET call == flight'.call
            areaUp == getAreaUp(mouse'.lastAreaId)
        IN  /\ call.method \in {"flyTo", "jumpTo"}
            /\ call.method = "flyTo" <=> getCameraFly(navCube) = Bool(TRUE)
            /\ call.method = "flyTo" =>
                 call.duration = getCameraFlyDuration(navCube)
            /\ call.fitFOV = getCameraFitFOV(navCube)
            /\ call.look = Centre(aabb)
            /\ call.up = IF areaUp = Undefined THEN Vec(<<0, 1, 0>>) ELSE areaUp]_vars

\* with cameraFly off, a click on an area that has no up vector made the camera
\* jump, the fitFOV having been changed to 60 beforehand
C10_Witness ==
    /\ flight.call # Null
    /\ flight.call.method = "jumpTo"
    /\ flight.call.fitFOV = Num(60)
    /\ flight.call.up = Vec(<<0, 1, 0>>)
    /\ getCameraFly(navCube) = Bool(FALSE)

\* with cameraFly on, a click on an area that has an up vector made the camera
\* fly for the duration set
C10_WitnessFly ==
    /\ flight.call # Null
    /\ flight.call.method = "flyTo"
    /\ flight.call.duration = Num(10)
    /\ flight.call.up = Vec(<<0, 1, 1>>)
    /\ flight.call.look = Vec(<<1, 2, 2>>)

----------------------------------------------------------------------------
(* Teardown and the camera subscriptions *)

\* C11: after destroy(), every subscription and DOM listener the constructor
\* registered has been removed, so that no later event of the viewer or of the
\* mouse invokes a handler of the destroyed plugin
C11_DestroyRemovesListeners == destroyed => listeners \cap Registered = {}

\* the NavCube camera looks at the origin from the point 5 away from it in the
\* direction from the viewer camera's look to its eye, with the viewer camera's up
Synched ==
    LET vx == viewerCamera.eye[1] - viewerCamera.look[1]
        vy == viewerCamera.eye[2] - viewerCamera.look[2]
        vz == viewerCamera.eye[3] - viewerCamera.look[3]
        n == navCubeCamera.eye.num
        d2 == navCubeCamera.eye.den2
    IN  /\ navCubeCamera.look = <<0, 0, 0>>
        \* length 5
        /\ n[1] * n[1] + n[2] * n[2] + n[3] * n[3] = 25 * d2
        \* parallel to eye - look
        /\ n[2] * vz - n[3] * vy = 0
        /\ n[3] * vx - n[1] * vz = 0
        /\ n[1] * vy - n[2] * vx = 0
        \* and pointing the same way
        /\ n[1] * vx + n[2] * vy + n[3] * vz > 0
        /\ navCubeCamera.up = viewerCamera.up

\* C12: after every "matrix" or "worldAxis" event of the viewer camera before
\* destroy(), the NavCube camera's look is [0,0,0], its eye is the unit vector from
\* the viewer camera's look to its eye scaled to length 5, and its up is the viewer
\* camera's up
C12_CameraSynched ==
    [][(OnCameraMatrix \/ OnCameraWorldAxis) /\ ~destroyed => Synched']_vars

\* a "matrix" or "worldAxis" event brought the NavCube camera to a pose that is
\* neither the default one nor along an axis
C12_Witness ==
    /\ ~destroyed
    /\ viewerCamera.eye = <<3, 4, 0>>
    /\ viewerCamera.look = <<1, 1, 1>>
    /\ viewerCamera.up = <<0, 0, 1>>
    /\ navCubeCamera.look = <<0, 0, 0>>
    /\ navCubeCamera.eye = [num |-> <<10, 15, -5>>, den2 |-> 14]
    /\ navCubeCamera.up = <<0, 0, 1>>

\* the NavCube camera's pose
Pose(cam) == <<cam.eye, cam.look, cam.up>>

\* C13: before destroy(), the NavCube camera's projection is the value of the latest
\* "projection" event and its perspective fov the value of the latest "fov" event;
\* the "fov" handler leaves the projection and the pose alone, and the "projection"
\* handler leaves the fov and the pose alone
C13_ProjectionAndFov ==
    /\ [](~destroyed => /\ navCubeCamera.projection = viewerCamera.projection
                        /\ navCubeCamera.fov = viewerCamera.fov)
    /\ [][OnCameraFOV => /\ navCubeCamera'.projection = navCubeCamera.projection
                         /\ Pose(navCubeCamera') = Pose(navCubeCamera)]_vars
    /\ [][OnCameraProjection => /\ navCubeCamera'.fov = navCubeCamera.fov
                                /\ Pose(navCubeCamera') = Pose(navCubeCamera)]_vars

\* both events have changed the NavCube camera, after its pose was synchronised
C13_Witness ==
    /\ ~destroyed
    /\ navCubeCamera.projection = "ortho"
    /\ navCubeCamera.fov = 45
    /\ navCubeCamera.eye = [num |-> <<10, 15, -5>>, den2 |-> 14]

----------------------------------------------------------------------------
(* Layout on the tick *)

\* the NavCube canvas has the size and the position that the layout gives it for
\* the plugin's size, alignment and margins and the Viewer canvas's boundary
Conforms ==
    LET x == boundary[1]
        y == boundary[2]
        w == boundary[3]
        h == boundary[4]
        size == getSize(navCube)
        alignment == getAlignment(navCube)
        left == IF alignment \in {Str("topRight"), Str("bottomRight")}
                THEN Px(Num(x + w - ToNumber(size) - ToNumber(getRightMargin(navCube))))
                ELSE Px(getLeftMargin(navCube))
        top == IF alignment \in {Str("bottomLeft"), Str("bottomRight")}
               THEN Px(Num(y + h - ToNumber(size) - ToNumber(getBottomMargin(navCube))))
               ELSE Px(getTopMargin(navCube))
    IN  /\ navCube.style.width = Px(size)
        /\ navCube.style.height = Px(size)
        /\ navCube.style.left = left
        /\ navCube.style.top = top

\* a step that calls setVisible, setSize, setAlignment or a margin setter, or in
\* which the Viewer's canvas fires "boundary"
LayoutChanges ==
    \/ SetVisible
    \/ SetSize
    \/ SetAlignment
    \/ SetLeftMargin
    \/ SetRightMargin
    \/ SetTopMargin
    \/ SetBottomMargin
    \/ OnCanvasBoundary

\* C14: setVisible, setSize, setAlignment, the margin setters and the canvas's
\* "boundary" event mark the layout dirty; a tick with the flag set lays the NavCube
\* out and clears the flag; a tick with the flag clear changes nothing; so whenever
\* the flag is clear the canvas's style width and height are getSize() px and its
\* position is the layout's for the current alignment, margins and boundary
C14_DeferredLayout ==
    /\ [][navCube'.needUpdateLayout \/ ~LayoutChanges]_vars
    /\ [][OnSceneTick /\ navCube.needUpdateLayout =>
            ~navCube'.needUpdateLayout /\ Conforms']_vars
    /\ [][OnSceneTick /\ ~navCube.needUpdateLayout =>
            navCube' = navCube /\ boundary' = boundary]_vars
    /\ [](~navCube.needUpdateLayout => Conforms)

\* the NavCube was laid out at the top right after its size, alignment and top
\* margin were set and the canvas's boundary changed
C14_Witness ==
    /\ ~fresh
    /\ ~navCube.needUpdateLayout
    /\ boundary = <<5, 7, 640, 480>>
    /\ getSize(navCube) = Num(300)
    /\ getAlignment(navCube) = Str("topRight")
    /\ getTopMargin(navCube) = Num(0)
    /\ getRightMargin(navCube) = Num(10)
    /\ navCube.style.width = Str("300px")
    /\ navCube.style.left = Str("335px")
    /\ navCube.style.top = Str("0px")

----------------------------------------------------------------------------
(* Drags and clicks *)

\* this step calls viewer.camera.orbitYaw and orbitPitch
Orbits == orbit'.seq # orbit.seq

\* this step is a mousedown on the NavCube canvas whose pick hit the cube
MouseDownHits ==
    \E e \in MouseDownEvents : Handled(_onMouseDown(Closure, e, HitNoUV))

\* this step is a mousedown on the NavCube canvas whose pick missed
MouseDownMisses ==
    \E e \in MouseDownEvents : Handled(_onMouseDown(Closure, e, NoHit))

\* this step is a mouseup of the left button
LeftMouseUp ==
    \E e \in MouseUpEvents :
        /\ e.which = 1
        /\ \E hit \in Picked(mouse.downX # Null) :
            Handled(_onMouseUp(Closure, navCube, aabb, e, hit))

\* C15: the viewer camera is orbited only by a mousemove handled while the drag
\* flag is set; the flag is set only by a mousedown whose pick hit the cube, and is
\* cleared by a left-button mouseup and by a mousedown whose pick missed, and by
\* nothing else; in every state, any left-button mouseup and any mousedown whose
\* pick misses leave the flag clear; no step orbits the camera before the first mousedown or while the
\* flag is clear
C15_OrbitOnlyInDrag ==
    /\ [][Orbits => mouse.down /\ OnMouseMove]_vars
    /\ [][~mouse.down => orbit' = orbit]_vars
    /\ [][~mouse.down /\ mouse'.down => MouseDownHits]_vars
    /\ [][mouse.down /\ ~mouse'.down => LeftMouseUp \/ MouseDownMisses]_vars
    /\ [](\A e \in MouseUpEvents, hit \in Hits :
            e.which = 1 => ~_onMouseUp(Closure, navCube, aabb, e, hit).mouse.down)
    /\ [](\A e \in MouseDownEvents : ~_onMouseDown(Closure, e, NoHit).mouse.down)
    /\ [](mouse.downX = Null => ~mouse.down /\ orbit.seq = 0 /\ orbit.yaw = Null)

\* a drag is over: a mousemove 4 pixels below the mousedown orbited the camera,
\* and the left-button mouseup that followed cleared the drag flag
C15_Witness ==
    /\ ~mouse.down
    /\ mouse.downY = Num(20)
    /\ mouse.lastY = Num(24)
    /\ orbit.seq = 1
    /\ orbit.yaw = Num(0)
    /\ orbit.pitch = Num(4)

\* a left-button mouseup e whose pick is hit happens with the mouse at most 3 pixels
\* from where the latest mousedown left it, in x and in y
Near(e) ==
    /\ e.x - mouse.downX.num \in -3 .. 3
    /\ e.y - mouse.downY.num \in -3 .. 3

\* the pick found the cube area areaId
PicksArea(hit) == hit \in {HitUV(a) : a \in 0 .. NumAreas - 1}

\* C16: a camera move is started only by a left-button mouseup, after a mousedown
\* on the NavCube canvas, that picks an area with id >= 0 that has a direction and
\* is within 3 pixels in x and in y of the latest mousedown; a left-button mouseup
\* farther away in x or in y highlights the area it picks and starts no camera
\* move; downX and downY are where the latest mousedown was; and no camera move is
\* started before the first mousedown
C16_MoveOnlyOnClick ==
    /\ [][CameraMoveStarts =>
            /\ mouse.downX # Null
            /\ \E e \in MouseUpEvents, hit \in Hits :
                /\ e.which = 1
                /\ PicksArea(hit)
                /\ Truthy(getAreaDir(hit.area))
                /\ Near(e)
                /\ Handled(_onMouseUp(Closure, navCube, aabb, e, hit))]_vars
    /\ [](mouse.downX # Null =>
            \A e \in MouseUpEvents, hit \in Hits :
                e.which = 1 /\ PicksArea(hit) /\ ~Near(e) =>
                    LET st == _onMouseUp(Closure, navCube, aabb, e, hit)
                    IN  /\ st.flight = flight
                        /\ hit.area \in st.texture.highlighted)
    /\ [][mouse'.downX # mouse.downX \/ mouse'.downY # mouse.downY => OnMouseDown]_vars
    /\ [](\A e \in MouseDownEvents, hit \in {NoHit, HitNoUV} :
            LET st == _onMouseDown(Closure, e, hit)
            IN  st.mouse.downX = Num(e.x) /\ st.mouse.downY = Num(e.y))
    /\ [](mouse.downX = Null => flight.seq = 0 /\ flight.call = Null)

\* a left-button mouseup on area 1, near the mousedown at (13, 20), highlighted the
\* area and started the one camera move so far
C16_Witness ==
    /\ flight.seq = 1
    /\ flight.call # Null
    /\ mouse.downX = Num(13)
    /\ mouse.downY = Num(20)
    /\ mouse.lastAreaId = 1
    /\ texture.highlighted = {1}
    /\ ~mouse.down

----------------------------------------------------------------------------
(* Repainting *)

\* C17: every handler that changes which areas are highlighted repaints before it
\* returns, so that between events the image on the cube mesh shows the areas
\* that are highlighted
C17_RepaintFollowsHighlight == texture.image = texture.highlighted

\* a camera move has completed and its callback has run, and a mousemove over the
\* cube then moved the highlight to area 2, which the image shows
C17_Witness ==
    /\ flight.seq = 1
    /\ ~flight.ok
    /\ mouse.over
    /\ ~mouse.down
    /\ cursor = "pointer"
    /\ mouse.lastAreaId = 2
    /\ texture.highlighted = {2}
    /\ texture.image = {2}

----------------------------------------------------------------------------
(* colorAdjustment appends *)

\* the lines of the colour-grading function, in order
Block ==
    <<"uniform vec4 colorParams;",
      "vec4 brightnessSaturationAndConstrast(vec4 color) {",
      "float brightness = colorParams.r;",
      "float saturation = colorParams.g;",
      "float contrast = colorParams.b;",
      "vec3 finalColor = color.rgb * brightness;",
      "float luminance = 0.2125 * color.r + 0.7154 * color.g + 0.0721 * color.b;",
      "vec3 luminanceColor = vec3(luminance);",
      "finalColor = mix(luminanceColor,finalColor,saturation);",
      "vec3 avgColor = vec3(0.5);",
      "finalColor = clamp(mix(avgColor,finalColor,contrast),0.0,1.0);",
      "return vec4(finalColor,color.a);",
      "}">>

\* C18: colorAdjustment only appends: after k calls on a list of n lines the list
\* has n + 13 k lines, its first n lines are the ones it had, in their order, and
\* each call's 13 lines are the same fixed block, which begins with the
\* colorParams uniform and the opening of brightnessSaturationAndConstrast and
\* ends with the closing brace
C18_OnlyAppends ==
    LET n == Len(src0)
    IN  /\ Len(src) = n + 13 * calls
        /\ SubSeq(src, 1, n) = src0
        /\ \A k \in 1 .. calls :
            LET block == SubSeq(src, n + 13 * (k - 1) + 1, n + 13 * k)
            IN  /\ block[1] = "uniform vec4 colorParams;"
                /\ block[2] = "vec4 brightnessSaturationAndConstrast(vec4 color) {"
                /\ block[13] = "}"
                /\ block = Block

\* colorAdjustment was called twice on a list that already held a closing brace
\* and the colorParams uniform
C18_Witness ==
    /\ calls = 2
    /\ src0 = <<"}", "uniform vec4 colorParams;">>
    /\ Len(src) = 28
    /\ src[3] = "uniform vec4 colorParams;"
    /\ src[15] = "}"
    /\ src[16] = "uniform vec4 colorParams;"
    /\ src[28] = "}"

====
